---- MODULE Spec2Model ----
(***************************************************************************)
(* A model of sasctl.pzmm.write_score_code.ScoreCode.                      *)
(*                                                                         *)
(* Generated text is a sequence of tokens.  A token is a literal piece of  *)
(* an f-string, an interpolated value, one line break (NL) or one run of   *)
(* leading blanks (Sp(n)).  String concatenation (+=) is \o on sequences.  *)
(* The DS2 texts of the repository (score.sas and what convert_mas_to_cas  *)
(* makes of it) are character strings, searched and cut as Python does.    *)
(***************************************************************************)
EXTENDS Naturals, Integers, Sequences, FiniteSets, TLC

VARIABLES
    score_code,   \* ScoreCode.score_code, the class-level text buffer
    frame,        \* caller -> the locals of its write_score_code call
    disk,         \* the files of the score_code_path directory
    remote,       \* the calls made to the model repository, in order
    session,      \* what current_session() answers
    scope,        \* the argument space the callers draw from
    budget,       \* how many more calls may start
    threads       \* the callers that exist

vars == <<score_code, frame, disk, remote, session, scope, budget, threads>>

\* ------------------------------------------------------------------ bounds

MaxCalls == 2
MaxPredictors == 2
MaxTargets == 2
MaxMetrics == MaxTargets + 2
MaxOutputs == 2

\* ------------------------------------------------------------ text helpers

NL == "\n"
None == "None"
Absent == "absent"

RECURSIVE Sp(_)
\* f"{'':n}": n blanks
Sp(n) == IF n = 0 THEN "" ELSE " " \o Sp(n - 1)

RECURSIVE Join(_, _)
\* sep.join(xs), the separator kept as a token of its own
Join(sep, xs) ==
    IF Len(xs) = 0 THEN <<>>
    ELSE IF Len(xs) = 1 THEN <<xs[1]>>
    ELSE <<xs[1], sep>> \o Join(sep, Tail(xs))

RECURSIVE Flat(_)
Flat(xss) == IF Len(xss) = 0 THEN <<>> ELSE xss[1] \o Flat(Tail(xss))

\* the sequences over S of length lo..hi
SeqsOf(S, lo, hi) == UNION {[1..n -> S] : n \in lo..hi}

IsPrefix(p, t) == Len(p) <= Len(t) /\ SubSeq(t, 1, Len(p)) = p
IsSuffix(s, t) == Len(s) <= Len(t) /\ SubSeq(t, Len(t) - Len(s) + 1, Len(t)) = s
Occurs(p, t) == \E i \in 0..(Len(t) - Len(p)) : SubSeq(t, i + 1, i + Len(p)) = p
DropFirst(n, t) == SubSeq(t, n + 1, Len(t))

\* ------------------------------------------------- character strings (str)

\* sub in s
In(sub, s) == \E i \in 0..(Len(s) - Len(sub)) : SubSeq(s, i + 1, i + Len(sub)) = sub

\* s.find(sub): where sub begins first, counted from 0, and -1 when it is not in s
find(s, sub) ==
    LET at == {i \in 0..(Len(s) - Len(sub)) : SubSeq(s, i + 1, i + Len(sub)) = sub}
    IN IF at = {} THEN -1 ELSE CHOOSE i \in at : \A j \in at : i <= j

\* an index of a slice: a negative one counts from the end, and both are clamped
SliceIndex(s, i) ==
    IF i < 0 THEN (IF Len(s) + i < 0 THEN 0 ELSE Len(s) + i)
    ELSE IF i > Len(s) THEN Len(s) ELSE i

\* s[a:b]
slice(s, a, b) ==
    LET lo == SliceIndex(s, a)
        hi == SliceIndex(s, b)
    IN IF hi <= lo THEN "" ELSE SubSeq(s, lo + 1, hi)

RECURSIVE split(_, _)
\* s.split(sep)
split(s, sep) ==
    LET i == find(s, sep) IN
    IF i = -1 THEN <<s>>
    ELSE <<slice(s, 0, i)>> \o split(slice(s, i + Len(sep), Len(s)), sep)

RECURSIVE join(_, _)
\* sep.join(words)
join(sep, words) ==
    IF Len(words) = 0 THEN ""
    ELSE IF Len(words) = 1 THEN words[1]
    ELSE words[1] \o sep \o join(sep, Tail(words))

\* ------------------------------------------------------------ identifiers

Letters == {"A", "B", "D", "E", "L", "M", "N", "O", "R", "T", "U", "_"}
Digits == {"2"}

\* the characters of the names the callers use
Chars(name) ==
    CASE name = "LOAN" -> <<"L", "O", "A", "N">>
      [] name = "MORTDUE" -> <<"M", "O", "R", "T", "D", "U", "E">>
      [] name = "2ND" -> <<"2", "N", "D">>
      [] name = "DEBT INC" -> <<"D", "E", "B", "T", " ", "I", "N", "C">>
      [] name = "NOTE" -> <<"N", "O", "T", "E">>
      [] name = "LATE" -> <<"L", "A", "T", "E">>
      [] OTHER -> <<>>

\* str.isidentifier(): not empty, a letter or "_" first, then letters, digits, "_"
isidentifier(name) ==
    LET cs == Chars(name) IN
    /\ Len(cs) > 0
    /\ cs[1] \in Letters
    /\ \A i \in 1..Len(cs) : cs[i] \in Letters \cup Digits

\* ----------------------------------------------------------------- inputs

\* a column of input_data: its name, its dtype, and what the training data hold
Columns ==
    { [name |-> "LOAN", type |-> "int64", binary |-> FALSE, mean |-> "18607.9", mode |-> "15000"],
      [name |-> "MORTDUE", type |-> "float64", binary |-> FALSE, mean |-> "73760.8", mode |-> "42000.0"],
      [name |-> "2ND", type |-> "int64", binary |-> TRUE, mean |-> "0.2", mode |-> "0"],
      [name |-> "DEBT INC", type |-> "object", binary |-> FALSE, mean |-> None, mode |-> None],
      [name |-> "NOTE", type |-> "object", binary |-> FALSE, mean |-> None, mode |-> None],
      [name |-> "LATE", type |-> "int64", binary |-> TRUE, mean |-> "0.1", mode |-> "0"] }

Col(n) == CHOOSE c \in Columns : c.name = n

\* input_data as a list of {"name", "type"} records: the types are the words of
\* a model signature, and there is no column of values behind a name
Records ==
    { [name |-> "LOAN", type |-> "integer", binary |-> FALSE, mean |-> None, mode |-> None],
      [name |-> "MORTDUE", type |-> "double", binary |-> FALSE, mean |-> None, mode |-> None],
      [name |-> "NOTE", type |-> "string", binary |-> FALSE, mean |-> None, mode |-> None] }

Rec(n) == CHOOSE c \in Records : c.name = n

MetricNames == <<"BAD", "P_BAD0", "P_BAD1", "P_BAD2", "P_BAD3", "P_BAD4">>

\* The target values, as Python writes them, and what int() makes of each
TargetVals == {"1", "0", "'A'"}
PyIntRaises(v) == v \notin {"1", "0"}
PyInt(v) == IF v = "1" THEN 1 ELSE 0

NoKwargs ==
    [binary_string |-> Absent, mojo_model |-> Absent,
     binary_h2o_model |-> Absent, statsmodels_model |-> Absent]

\* the arguments of the documented call with every optional one left out
DefaultArgs ==
    [model_prefix |-> "hmeq",
     input_kind |-> "DataFrame",
     input_data |-> <<Col("LOAN"), Col("MORTDUE")>>,
     predict_method |-> "predict",
     metrics |-> <<"BAD">>,
     model_file_name |-> "model.pickle",
     pickle_type |-> "pickle",
     model |-> None,
     predict_threshold |-> None,
     score_code_path |-> None,
     has_targets |-> FALSE,
     target_values |-> <<>>,
     missing_values |-> FALSE,
     score_cas |-> TRUE,
     kwargs |-> NoKwargs]

\* target_values: None, or a list
TargetChoices(lo, hi) ==
    {[has |-> FALSE, vals |-> <<>>]} \cup
    {[has |-> TRUE, vals |-> t] : t \in SeqsOf(TargetVals, lo, hi)}

Thresholds == {None, "0", "0.3"}

MetricLists == {SubSeq(MetricNames, 1, n) : n \in 0..MaxMetrics}

\* input_data: a DataFrame of columns, or a list of name and type records
InputChoices ==
    {[kind |-> "DataFrame", data |-> d]
       : d \in SeqsOf({Col("LOAN"), Col("NOTE"), Col("LATE")}, 1, MaxPredictors)}
    \cup {[kind |-> "list", data |-> d] : d \in SeqsOf(Records, 1, MaxPredictors)}

\* what a boolean keyword of **kwargs can be: not passed, passed as True, passed as False
Flags == {Absent, "True", "False"}

\* how the model is stored: the file of the model and the keyword saying what it is
Representations ==
    { [file |-> "model.pickle", kwargs |-> NoKwargs],
      [file |-> "model.mojo", kwargs |-> [NoKwargs EXCEPT !.mojo_model = "True"]],
      [file |-> "model.h2o", kwargs |-> [NoKwargs EXCEPT !.binary_h2o_model = "True"]],
      [file |-> "model.pickle", kwargs |-> [NoKwargs EXCEPT !.binary_string = "gASV"]] }

ArgsOf(sc) ==
    CASE sc = "calls" ->
           { [DefaultArgs EXCEPT !.input_data = d, !.predict_threshold = th,
                                 !.has_targets = t.has, !.target_values = t.vals,
                                 !.score_code_path = p]
               : d \in {<<Col("LOAN"), Col("MORTDUE")>>, <<Col("2ND")>>},
                 th \in {None, "0.3"},
                 t \in {[has |-> FALSE, vals |-> <<>>], [has |-> TRUE, vals |-> <<"1">>],
                        [has |-> TRUE, vals |-> <<"1", "0">>]},
                 p \in {None, "dir"} }
      [] sc = "names" ->
           { [DefaultArgs EXCEPT !.input_data = d, !.model_prefix = x, !.input_kind = k]
               : d \in SeqsOf(Columns, 1, MaxPredictors), x \in {"hmeq", "Tree"},
                 k \in {"DataFrame", "list"} }
      [] sc = "metrics" ->
           { [DefaultArgs EXCEPT !.metrics = m, !.predict_threshold = th,
                                 !.has_targets = t.has, !.target_values = t.vals,
                                 !.kwargs = [NoKwargs EXCEPT !.mojo_model = h]]
               : m \in MetricLists, th \in Thresholds,
                 t \in TargetChoices(0, MaxTargets), h \in {Absent, "True"} }
      [] sc = "platform" ->
           { [DefaultArgs EXCEPT !.model = mo, !.score_cas = c, !.score_code_path = p,
                                 !.kwargs = [NoKwargs EXCEPT !.binary_string = b]]
               : mo \in {None, "hmeq_model"}, c \in BOOLEAN, p \in {None, "dir"},
                 b \in {Absent, "gASV"} }
      [] sc = "errors" ->
           { [DefaultArgs EXCEPT !.input_data = d, !.predict_threshold = th,
                                 !.model = mo, !.score_code_path = p]
               : d \in {<<Col("LOAN")>>, <<Col("LOAN"), Col("2ND")>>},
                 th \in {None, "0.3"}, mo \in {None, "hmeq_model"}, p \in {None, "dir"} }
      [] sc = "convert" ->
           { [DefaultArgs EXCEPT !.model = "hmeq_model", !.score_code_path = p]
               : p \in {None, "dir"} }
      [] sc = "stages" ->
           { [DefaultArgs EXCEPT !.input_kind = i.kind, !.input_data = i.data,
                                 !.missing_values = mv, !.pickle_type = pt,
                                 !.model = "hmeq_model",
                                 !.model_file_name = r.file, !.kwargs = r.kwargs]
               : i \in InputChoices, mv \in BOOLEAN, pt \in {"pickle", "dill"},
                 r \in Representations }
      [] sc = "flags" ->
           { [DefaultArgs EXCEPT !.input_data = d, !.predict_method = pm,
                                 !.kwargs = [NoKwargs EXCEPT !.mojo_model = m,
                                                             !.binary_h2o_model = b,
                                                             !.statsmodels_model = st]]
               : d \in {<<Col("LOAN"), Col("MORTDUE")>>, <<Col("NOTE"), Col("LOAN")>>},
                 pm \in {"predict", "predict_proba"},
                 m \in Flags, b \in Flags, st \in Flags }
      [] sc = "concurrent" ->
           { [DefaultArgs EXCEPT !.model_prefix = x] : x \in {"hmeq", "Tree"} }
      [] OTHER -> {DefaultArgs}

SessionsOf(sc) ==
    CASE sc = "platform" -> {"none", "v35", "v4"}
      [] sc \in {"errors", "stages"} -> {"v35", "v4"}
      [] sc = "convert" -> {"v35"}
      [] OTHER -> {"v4"}

\* Python truth of an optional string argument (None and "" are false)
Truthy(v) == v \notin {None, Absent, ""}

\* Python truth of predict_threshold (None and the number 0 are false)
NumberTruthy(th) == th \notin {None, "0"}

\* -------------------------------------------------------------- exceptions

NoExc == [type |-> None, msg |-> None, names |-> <<>>]
Raise(t, m) == [type |-> t, msg |-> m, names |-> <<>>]

\* what a stage hands back: the text it appended and the exception it raised
Emit(t) == [text |-> t, exc |-> NoExc]
Fail(t, e) == [text |-> t, exc |-> e]

\* --------------------------------------------------------------- validation

RECURSIVE SelectNot(_)
\* the names that are no identifiers, in the order of var_list
SelectNot(var_list) ==
    IF Len(var_list) = 0 THEN <<>>
    ELSE (IF isidentifier(var_list[1]) THEN <<>> ELSE <<var_list[1]>>)
         \o SelectNot(Tail(var_list))

_check_for_invalid_variable_names_first_only(var_list) ==
    LET invalid_variables == SelectNot(var_list) IN
    IF Len(invalid_variables) > 0
    THEN [type |-> "SyntaxError", msg |-> "not valid variable names",
          names |-> <<invalid_variables[1]>>]
    ELSE NoExc

_check_for_invalid_variable_names(var_list) ==
    LET invalid_variables == SelectNot(var_list) IN
    IF Len(invalid_variables) > 0
    THEN [type |-> "SyntaxError", msg |-> "not valid variable names",
          names |-> invalid_variables]
    ELSE NoExc

\* --------------------------------------------------------------- model id

\* mr.get_model(model): a model record, or None when there is no such model
ModelResponses == {"uuid-1", None}

_get_model_id_unchecked(model, model_response) ==
    IF ~Truthy(model)
    THEN [id |-> None, exc |-> Raise("ValueError", "No model identification was provided")]
    ELSE [id |-> model_response, exc |-> NoExc]

_get_model_id(model, model_response) ==
    IF ~Truthy(model)
    THEN [id |-> None, exc |-> Raise("ValueError", "No model identification was provided")]
    ELSE IF model_response = None
         THEN [id |-> None, exc |-> Raise("ValueError", "No model could be found")]
         ELSE [id |-> model_response, exc |-> NoExc]

\* ---------------------------------------------------------------- imports

_write_imports(pickle_type, mojo_model, binary_h2o_model, binary_string, sess) ==
    LET pt == IF Truthy(pickle_type) THEN pickle_type ELSE "pickle" IN
    <<"import math", NL, "import ", pt, NL, "import pandas as pd", NL,
      "import numpy as np", NL, "from pathlib import Path", NL, NL>>
    \o (IF sess \notin {"none", "v35"} THEN <<"import settings", NL, NL>> ELSE <<>>)
    \o (IF mojo_model \/ binary_h2o_model
        THEN <<"import h2o", NL, "import gzip", NL, "import shutil", NL, "import os",
               NL, NL, "h2o.init()", NL, NL>>
        ELSE IF Truthy(binary_string)
        THEN <<"import codecs", NL, NL, "binary_string = \"", binary_string, "\"", NL,
               "model = ", pt, ".loads(codecs.decode(binary_string.encode(), \"base64\"))",
               NL, NL>>
        ELSE <<>>)

\* ------------------------------------------------------------- model load

\* str(Path(name).with_suffix('.zip'))
with_suffix_zip(name) ==
    CASE name = "model.pickle" -> "model.zip"
      [] name = "model.mojo" -> "model.zip"
      [] name = "model.h2o" -> "model.zip"
      [] OTHER -> name \o ".zip"

\* [emit |-> what is appended to the buffer, ret |-> the string returned]
_viya35_model_load(model_id, model_file_name, pickle_type, mojo_model, binary_h2o_model) ==
    LET pt == IF Truthy(pickle_type) THEN pickle_type ELSE "pickle"
        zip == with_suffix_zip(model_file_name)
    IN
    IF mojo_model THEN
      [emit |-> <<"model_path = Path(\"/models/resources/viya/", model_id, "\")", NL,
                  "with gzip.open(model_path / \"", model_file_name,
                  "\", \"r\") as fileIn, open(model_path / \"", zip,
                  "\", \"wb\") as fileOut:", NL,
                  Sp(4), "shutil.copyfileobj(fileIn, fileOut)", NL,
                  "os.chmod(model_path / \"", zip, "\", 0o777)", NL,
                  "model = h2o.import_mojo(model_path / \"", zip, "\")", NL, NL>>,
       ret |-> <<Sp(8), "model = h2o.import_mojo(model_path / \"", zip, "\")">>]
    ELSE IF binary_h2o_model THEN
      [emit |-> <<"model = h2o.load(Path(\"/models/resources/viya/", model_id, "/",
                  model_file_name, "\"))", NL, NL>>,
       ret |-> <<Sp(8), "model = h2o.load(Path(\"/models/resources/viya/", model_id, "/",
                 model_file_name, "\"))">>]
    ELSE
      [emit |-> <<"model_path = Path(\"/models/resources/viya/", model_id, "\")", NL,
                  "with open(model_path / \"", model_file_name,
                  "\", \"rb\") as pickle_model:", NL,
                  Sp(4), "model = ", pt, ".load(pickle_model)", NL, NL>>,
       ret |-> <<Sp(8), "model_path = Path(\"/models/resources/viya/", model_id, "\")", NL,
                 Sp(8), "with open(model_path / \"", model_file_name,
                 "\", \"rb\") as pickle_model:", NL,
                 Sp(12), "model = ", pt, ".load(pickle_model)">>]

_viya4_model_load(model_file_name, pickle_type, mojo_model, binary_h2o_model) ==
    LET pt == IF Truthy(pickle_type) THEN pickle_type ELSE "pickle"
        zip == with_suffix_zip(model_file_name)
    IN
    IF mojo_model THEN
      [emit |-> <<"with gzip.open(Path(settings.pickle_path) / \"", "{model_file_name}",
                  "\", \"r\") as fileIn, open(Path(settings.pickle_path) / \"", zip,
                  "\", \"wb\") as fileOut:", NL,
                  Sp(4), "shutil.copyfileobj(fileIn, fileOut)", NL,
                  "os.chmod(Path(settings.pickle_path) / \"", zip, "\", 0o777)", NL,
                  "model = h2o.import_mojo(Path(settings.pickle_path) / \"", zip, "\")",
                  NL, NL>>,
       ret |-> <<Sp(8), "model = h2o.import_mojo(Path(settings.pickle_path) / \"", zip,
                 "\")", NL, NL>>]
    ELSE IF binary_h2o_model THEN
      [emit |-> <<"model = h2o.load(Path(settings.pickle_path))", NL, NL>>,
       ret |-> <<Sp(8), "model = h2o.load(Path(settings.pickle_path))", NL, NL>>]
    ELSE
      [emit |-> <<"with open(Path(settings.pickle_path) / \"", model_file_name,
                  "\", \"rb\") as pickle_model:", NL,
                  Sp(4), "model = ", pt, ".load(pickle_model)", NL, NL>>,
       ret |-> <<Sp(8), "with open(Path(settings.pickle_path) / \"", model_file_name,
                 "\", \"rb\") as pickle_model:", NL,
                 Sp(4 + 12), "model = ", pt, ".load(pickle_model)", NL, NL>>]

\* ------------------------------------------------- function header and guard

ScoreHeaderNoPrefix(model_prefix, input_var_list, metrics) ==
    <<"def score", "(">> \o Join(", ", input_var_list) \o <<"):", NL>>
    \o <<Sp(4), "\"Output: ">> \o Join(", ", metrics) \o <<"\"", NL, NL>>

\* the "def score..." line and the docstring line (write_score_code)

ScoreHeader(model_prefix, input_var_list, metrics) ==
    <<"def score", model_prefix, "(">> \o Join(", ", input_var_list) \o <<"):", NL>>
    \o <<Sp(4), "\"Output: ">> \o Join(", ", metrics) \o <<"\"", NL, NL>>

\* the try/except NameError block around the second load text (write_score_code)
LoadGuard(model_load) ==
    <<Sp(4), "try:", NL, Sp(8), "global model", NL, Sp(4), "except NameError:", NL>>
    \o model_load

\* -------------------------------------------------------------- imputation

\* any(t in dtype for t in ["int", "float"])
IsNumericDtype(dtype) == In("int", dtype) \/ In("float", dtype)

\* data[var] needs a DataFrame: a list of dicts takes no string index
_impute_numeric(input_kind, col) ==
    IF input_kind # "DataFrame"
    THEN Fail(<<>>, Raise("TypeError", "list indices must be integers or slices, not str"))
    ELSE IF col.binary
    THEN Emit(<<Sp(4), "try:", NL, Sp(8), "if math.isnan(", col.name, "):", NL,
                Sp(12), col.name, " = ", col.mode, NL,
                Sp(4), "except TypeError:", NL, Sp(8), col.name, " = ", col.mode, NL>>)
    ELSE Emit(<<Sp(4), "try:", NL, Sp(8), "if math.isnan(", col.name, "):", NL,
                Sp(12), col.name, " = ", col.mean, NL,
                Sp(4), "except TypeError", NL, Sp(8), col.name, " = ", col.mean, NL>>)

_impute_char(var) ==
    Emit(<<Sp(4), "try:", NL, Sp(8), var, " = ", var, ".strip()", NL,
           Sp(4), "except AttributeError:", NL, Sp(8), var, " = \"\"", NL>>)

RECURSIVE ImputeLoop(_, _)
\* the for loop of _impute_missing_values: it stops at the first exception
ImputeLoop(input_kind, cols) ==
    IF Len(cols) = 0 THEN Emit(<<>>)
    ELSE LET one == IF IsNumericDtype(cols[1].type)
                    THEN _impute_numeric(input_kind, cols[1])
                    ELSE _impute_char(cols[1].name)
         IN IF one.exc # NoExc THEN one
            ELSE LET rest == ImputeLoop(input_kind, Tail(cols))
                 IN [text |-> one.text \o rest.text, exc |-> rest.exc]

_impute_missing_values_left_out(input_kind, cols) == Emit(<<>>)

_impute_missing_values(input_kind, cols) ==
    LET loop == ImputeLoop(input_kind, cols) IN
    IF loop.exc # NoExc THEN loop ELSE Emit(loop.text \o <<NL>>)

\* -------------------------------------------------------------- prediction

QuotedNames(var_list) == Join(", ", [i \in 1..Len(var_list) |-> "\"" \o var_list[i] \o "\""])

\* repr() of the list column_types
ColumnTypesRepr(cols) ==
    <<"[">>
    \o Join(", ", [i \in 1..Len(cols) |->
                     "'\"" \o cols[i].name \o "\" : \""
                     \o (IF IsNumericDtype(cols[i].type) THEN "numeric" ELSE "string")
                     \o "\"'"])
    \o <<"]">>

\* cols: the columns with their dtypes; has_dtypes: dtype_list was passed and is not empty
_predict_method(method, cols, has_dtypes, statsmodels_model) ==
    LET var_list == [i \in 1..Len(cols) |-> cols[i].name]
        column_names == QuotedNames(var_list)
    IN
    IF has_dtypes THEN
        <<Sp(4), "input_array", " = pd.DataFrame([[">> \o Join(", ", var_list) \o <<"]],", NL,
          Sp(31), "columns=[">> \o column_names \o <<"],", NL,
          Sp(31), "dtype=float,", NL, Sp(31), "index=[0])", NL,
          Sp(4), "column_types", " = ", "{">> \o ColumnTypesRepr(cols) \o <<"}", NL,
          Sp(4), "h2o_array", " = h2o.H2OFrame(", "input_array", ", column_types=",
          "column_types", ")", NL,
          Sp(4), "prediction = model.", method, "(", "h2o_array", ")", NL,
          Sp(4), "prediction = h2o.as_list(prediction, use_pandas=False)", NL>>
    ELSE IF statsmodels_model THEN
        <<Sp(4), "inputArray", " = pd.DataFrame([[", "1.0", ", ">> \o Join(", ", var_list)
        \o <<"]],", NL, Sp(29), "columns=[", "\"const\"", ", ">> \o column_names
        \o <<"],", NL, Sp(29), "dtype=float)", NL,
             Sp(4), "prediction = model.", method, "(", "input_array", ")", NL>>
    ELSE
        <<Sp(4), "input_array", " = pd.DataFrame([[">> \o Join(", ", var_list) \o <<"]],", NL,
          Sp(30), "columns=[">> \o column_names \o <<"],", NL, Sp(30), "dtype=float)", NL,
          Sp(4), "prediction = model.", method, "(", "input_array", ")", NL>>

\* ---------------------------------------------------------- metric mapping

\* metrics as _predictions_to_metrics holds it: a list, or the one name of a
\* list of one (items[1]) after "metrics = metrics[0]"
Flatten(metrics) == [isStr |-> Len(metrics) = 1, items |-> metrics]

\* len(metrics) == 1 or isinstance(metrics, str)
IsSingle(m) == (~m.isStr /\ Len(m.items) = 1) \/ m.isStr

\* f"{target_values}": repr() of the list
ListRepr(target_values) == <<"[">> \o Join(", ", target_values) \o <<"]">>

Return(items) == <<"return ">> \o Join(", ", items)

\* the lines "metrics[i + 1] = prediction...[i + 1]" for i in range(len(metrics) - 1)
ProbaLines(items, h2o_model) ==
    Flat([i \in 1..(Len(items) - 1) |->
            <<Sp(4), items[i + 1], " = ",
              IF h2o_model THEN "prediction[1][" ELSE "prediction[", ToString(i), "]", NL>>])

_no_targets_no_thresholds(m, h2o_model) ==
    IF IsSingle(m) THEN
        Emit(<<Sp(4), m.items[1], " = ", IF h2o_model THEN "prediction[1][0]" ELSE "prediction",
               NL, NL, Sp(4)>> \o Return(<<m.items[1]>>))
    ELSE IF Len(m.items) = 0 THEN
        Fail(<<>>, Raise("IndexError", "list index out of range"))
    ELSE
        Emit(<<Sp(4), m.items[1], " = ",
               IF h2o_model THEN "prediction[1][0]" ELSE "prediction[0]", NL>>
             \o ProbaLines(m.items, h2o_model)
             \o <<NL, Sp(4)>> \o Return(m.items))

DefaultThreshold == "0.5"

\* "if not threshold: threshold = 0.5"
EffectiveThreshold(threshold) == IF ~NumberTruthy(threshold) THEN DefaultThreshold ELSE threshold

Compare(h2o_model, threshold, name) ==
    <<Sp(4), "if ", IF h2o_model THEN "prediction[1][2]" ELSE "prediction", " > ",
      EffectiveThreshold(threshold), ":", NL,
      Sp(8), name, " = ", "1", NL, Sp(4), "else:", NL, Sp(8), name, " = ", "0", NL, NL>>

_binary_target_any_length(m, threshold, h2o_model) ==
    IF IsSingle(m) THEN
        Emit(Compare(h2o_model, threshold, m.items[1]) \o Return(<<m.items[1]>>))
    ELSE IF Len(m.items) = 0 THEN
        Fail(<<>>, Raise("ValueError", "Too many metrics"))
    ELSE
        Emit(Compare(h2o_model, threshold, m.items[1])
             \o Return(<<m.items[1], IF h2o_model THEN "prediction[1][2]" ELSE "prediction">>))

_binary_target(m, threshold, h2o_model) ==
    IF IsSingle(m) THEN
        Emit(Compare(h2o_model, threshold, m.items[1]) \o Return(<<m.items[1]>>))
    ELSE IF Len(m.items) = 2 THEN
        Emit(Compare(h2o_model, threshold, m.items[1])
             \o Return(<<m.items[1], IF h2o_model THEN "prediction[1][2]" ELSE "prediction">>))
    ELSE
        Fail(<<>>, Raise("ValueError", "Too many metrics"))

\* "<name> = target_values[<prediction>.index(max(<prediction>))]"
ArgMax(name, h2o_model) ==
    <<name, " = ", "target_values[", IF h2o_model THEN "prediction[1][1:]" ELSE "prediction",
      ".index(max(", IF h2o_model THEN "prediction[1][1:]" ELSE "prediction", "))]">>

_nonbinary_targets_any_length(m, target_values, h2o_model) ==
    IF IsSingle(m) THEN
        Emit(<<Sp(4), "target_values = ">> \o ListRepr(target_values) \o <<NL, Sp(4)>>
             \o ArgMax(m.items[1], h2o_model) \o <<NL, Sp(4)>> \o Return(<<m.items[1]>>))
    ELSE IF Len(m.items) >= Len(target_values) THEN
        Emit(<<Sp(4), "target_values = ">> \o ListRepr(target_values) \o <<NL>>
             \o ProbaLines(m.items, h2o_model)
             \o (IF Len(m.items) = Len(target_values) + 1
                 THEN <<Sp(4)>> \o ArgMax(m.items[1], h2o_model) \o <<NL>>
                 ELSE <<>>)
             \o <<Sp(4)>> \o Return(m.items))
    ELSE
        Fail(<<>>, Raise("ValueError", "An invalid number of target values"))

_nonbinary_targets(m, target_values, h2o_model) ==
    IF IsSingle(m) THEN
        Emit(<<Sp(4), "target_values = ">> \o ListRepr(target_values) \o <<NL, Sp(4)>>
             \o ArgMax(m.items[1], h2o_model) \o <<NL, Sp(4)>> \o Return(<<m.items[1]>>))
    ELSE IF Len(m.items) \in {Len(target_values), Len(target_values) + 1} THEN
        Emit(<<Sp(4), "target_values = ">> \o ListRepr(target_values) \o <<NL>>
             \o ProbaLines(m.items, h2o_model)
             \o (IF Len(m.items) = Len(target_values) + 1
                 THEN <<Sp(4)>> \o ArgMax(m.items[1], h2o_model) \o <<NL>>
                 ELSE <<>>)
             \o <<Sp(4)>> \o Return(m.items))
    ELSE
        Fail(<<>>, Raise("ValueError", "An invalid number of target values"))

DispatchFirstValueFirst(has_targets, target_values, predict_threshold) ==
    LET targets == has_targets /\ Len(target_values) > 0 IN
    IF ~(targets \/ NumberTruthy(predict_threshold)) THEN "passthrough"
    ELSE IF ~targets /\ NumberTruthy(predict_threshold) THEN "threshold_without_target"
    ELSE IF PyIntRaises(target_values[1]) THEN "int_raises"
    ELSE IF PyInt(target_values[1]) = 1 THEN "binary"
    ELSE IF Len(target_values) > 1 THEN "multiclass"
    ELSE "single_not_one"

\* which branch of _predictions_to_metrics is taken
Dispatch(has_targets, target_values, predict_threshold) ==
    LET targets == has_targets /\ Len(target_values) > 0 IN
    IF ~(targets \/ NumberTruthy(predict_threshold)) THEN "passthrough"
    ELSE IF ~targets /\ NumberTruthy(predict_threshold) THEN "threshold_without_target"
    ELSE IF Len(target_values) > 1 THEN "multiclass"
    ELSE IF PyIntRaises(target_values[1]) THEN "int_raises"
    ELSE IF Len(target_values) = 1 /\ PyInt(target_values[1]) = 1 THEN "binary"
    ELSE IF Len(target_values) = 1 /\ PyInt(target_values[1]) # 1 THEN "single_not_one"
    ELSE "none"

_predictions_to_metrics(metrics, has_targets, target_values, predict_threshold, h2o_model) ==
    LET m == Flatten(metrics)
        branch == Dispatch(has_targets, target_values, predict_threshold)
    IN
    CASE branch = "passthrough" -> _no_targets_no_thresholds(m, h2o_model)
      [] branch = "threshold_without_target" ->
           Fail(<<>>, Raise("ValueError", "A threshold was provided, a target value was not"))
      [] branch = "multiclass" -> _nonbinary_targets(m, target_values, h2o_model)
      [] branch = "int_raises" ->
           Fail(<<>>, Raise("ValueError", "invalid literal for int()"))
      [] branch = "binary" -> _binary_target(m, predict_threshold, h2o_model)
      [] branch = "single_not_one" ->
           Fail(<<>>, Raise("ValueError", "please provide at least two target values"))
      [] OTHER -> Emit(<<>>)

\* --------------------------------------------------- the model repository

MAS_CODE_NAME == "dmcas_packagescorecode.sas"
CAS_CODE_NAME == "dmcas_epscorecode.sas"

\* model["outputVariables"] of the registered model
OutputVariables ==
    <<[name |-> "EM_CLASSIFICATION", type |-> "string"],
      [name |-> "EM_EVENTPROBABILITY", type |-> "decimal"]>>

\* a parameter of the score method of a score.sas text
InParam(type, name) == [in_out |-> FALSE, type |-> type, name |-> name]
OutParam(type, name) == [in_out |-> TRUE, type |-> type, name |-> name]

ParamText(p) == (IF p.in_out THEN "in_out " ELSE "") \o p.type \o " " \o p.name

\* the score.sas text the repository makes of a Python score file (mr.get);
\* shape says which of its lines it holds and what the score method takes
ScoreSasOf(shape) ==
    (IF shape.header THEN "package pythonScore / overwrite=yes;\n" ELSE "")
    \o "dcl package pymas pm;\n"
    \o (IF shape.dcl THEN "dcl int resultCode revision;\n" ELSE "")
    \o (IF shape.has_method
        THEN "method score("
             \o join(", ", [i \in 1..Len(shape.params) |-> ParamText(shape.params[i])])
             \o ");\n    resultCode = revision = 0;\nend;\n"
        ELSE "")
    \o (IF shape.endpackage THEN "endpackage;\n" ELSE "")

\* the text for the documented model
ScoreSasShape ==
    [header |-> TRUE, dcl |-> TRUE, has_method |-> TRUE, endpackage |-> TRUE,
     params |-> <<InParam("double", "LOAN"), InParam("double", "MORTDUE"),
                  OutParam("double", "resultCode"),
                  OutParam("varchar(100)", "EM_CLASSIFICATION")>>]

ScoreSas == ScoreSasOf(ScoreSasShape)

ParamLists ==
    { <<OutParam("double", "resultCode")>>,
      <<InParam("varchar(100)", "NOTE"), OutParam("double", "resultCode"),
        OutParam("double", "EM_EVENTPROBABILITY")>>,
      ScoreSasShape.params }

\* the score.sas texts a call may be answered with
ScoreSasShapes(sc) ==
    IF sc = "convert"
    THEN { [header |-> h, dcl |-> d, has_method |-> m.has, params |-> m.params,
            endpackage |-> e]
             : h \in BOOLEAN, d \in BOOLEAN, e \in BOOLEAN,
               m \in {[has |-> FALSE, params |-> <<>>]}
                      \cup {[has |-> TRUE, params |-> ps] : ps \in ParamLists} }
    ELSE {ScoreSasShape}

\* the output variables a registered model may have
OutputVariableLists(sc) ==
    IF sc = "convert"
    THEN SeqsOf({ [name |-> "EM_CLASSIFICATION", type |-> "string"],
                  [name |-> "EM_EVENTPROBABILITY", type |-> "decimal"],
                  [name |-> "endpackage", type |-> "decimal"] }, 0, MaxOutputs)
    ELSE {OutputVariables}

upload_and_copy_score_resources_copy_only(name) ==
    <<[op |-> "copy_python_resources", what |-> None]>>

\* upload_and_copy_score_resources(model, files), for one file
upload_and_copy_score_resources(name) ==
    <<[op |-> "add_model_content", what |-> name],
      [op |-> "copy_python_resources", what |-> None]>>

\* ------------------------------------------------------ convert_mas_to_cas

RECURSIVE output_string_all_double(_)
output_string_all_double(outputVariables) ==
    IF Len(outputVariables) = 0 THEN ""
    ELSE "dcl " \o "double " \o outputVariables[1].name \o ";\n"
         \o output_string_all_double(Tail(outputVariables))

RECURSIVE output_string(_)
\* the for loop over model["outputVariables"]
output_string(outputVariables) ==
    IF Len(outputVariables) = 0 THEN ""
    ELSE "dcl "
         \o (IF outputVariables[1].type = "string" THEN "varchar(100) " ELSE "double ")
         \o outputVariables[1].name \o ";\n"
         \o output_string(Tail(outputVariables))

RECURSIVE KeepNames_and_in_out(_)
KeepNames_and_in_out(words) ==
    IF Len(words) = 0 THEN <<>>
    ELSE (IF words[1] \in {"double", "varchar(100)"} THEN <<>> ELSE <<words[1]>>)
         \o KeepNames_and_in_out(Tail(words))

RECURSIVE KeepNames(_)
\* [x for x in words if (x != "double" and x != "in_out" and x != "varchar(100)")]
KeepNames(words) ==
    IF Len(words) = 0 THEN <<>>
    ELSE (IF words[1] \in {"double", "in_out", "varchar(100)"} THEN <<>> ELSE <<words[1]>>)
         \o KeepNames(Tail(words))

\* where a match of the alternation begins first, and which alternative it is:
\* at one place the earlier alternative wins
FirstMatch(patterns, text) ==
    LET hits == {k \in 1..Len(patterns) : find(text, patterns[k]) # -1}
        k == CHOOSE k \in hits :
               \A j \in hits : \/ find(text, patterns[k]) < find(text, patterns[j])
                                \/ (find(text, patterns[k]) = find(text, patterns[j])
                                    /\ k <= j)
    IN IF hits = {} THEN [k |-> 0, at |-> -1] ELSE [k |-> k, at |-> find(text, patterns[k])]

RECURSIVE replace(_, _, _)
\* text.replace(old, new)
replace(text, old, new) ==
    LET at == find(text, old) IN
    IF at = -1 THEN text
    ELSE slice(text, 0, at) \o new \o replace(slice(text, at + Len(old), Len(text)), old, new)

RECURSIVE sub_one_after_another(_, _, _)
sub_one_after_another(patterns, replacements, text) ==
    IF Len(patterns) = 0 THEN text
    ELSE sub_one_after_another(Tail(patterns), Tail(replacements),
                               replace(text, patterns[1], replacements[1]))

RECURSIVE sub(_, _, _)
\* pattern.sub(...) of the alternation of the patterns: the matches are taken
\* from left to right and what replaces one is not searched again
sub(patterns, replacements, text) ==
    LET m == FirstMatch(patterns, text) IN
    IF m.k = 0 THEN text
    ELSE slice(text, 0, m.at) \o replacements[m.k]
         \o sub(patterns, replacements, slice(text, m.at + Len(patterns[m.k]), Len(text)))

convert_mas_to_cas(mas_code, outputVariables) ==
    LET start == find(mas_code, "score(")
        finish == find(slice(mas_code, start, Len(mas_code)), ");")
        score_vars == slice(mas_code, start + 6, start + finish)
        input_string == join(" ", KeepNames(split(score_vars, " ")))
        end_block == "method run();\n" \o Sp(4) \o "set SASEP.IN;\n" \o Sp(4) \o "score("
                     \o input_string \o ");\nend;" \o "\nenddata;"
    IN sub(<<"package pythonScore / overwrite=yes;", "dcl int resultCode revision;",
             "endpackage;">>,
           <<"data sasep.out;",
             "dcl double resultCode revision;\n" \o output_string(outputVariables),
             end_block>>,
           mas_code)

\* ------------------------------------------------------------------ state

Unbound == <<"<unbound>">>

IdleFrame ==
    [pc |-> "idle", args |-> DefaultArgs, start |-> 0,
     model_id |-> None, model_file_name |-> None, binary_string |-> None,
     model_load |-> <<>>, mas_code |-> Unbound, cas_code |-> Unbound,
     exc |-> NoExc, returned |-> FALSE, output_dict |-> {}, warnings |-> 0,
     mark |-> 0, branch |-> None, outputVariables |-> <<>>, stages |-> <<>>]

InitIn(sc, n, t) ==
    /\ score_code = <<>>
    /\ threads = t
    /\ frame = [c \in t |-> IdleFrame]
    /\ disk = {}
    /\ remote = <<>>
    /\ scope = sc
    /\ session \in SessionsOf(sc)
    /\ budget = n

Init == InitIn("calls", MaxCalls, {1})

Set(self, f) == frame' = [frame EXCEPT ![self] = f]

InputVarList(a) == [i \in 1..Len(a.input_data) |-> a.input_data[i].name]

\* a stage of the call has run: it found the buffer at length from, left it at length to
Ran(stages, name, from, to) == Append(stages, [stage |-> name, from |-> from, to |-> to])

\* the file f written anew under the given name
WriteFile(files, name, text) ==
    {f \in files : f.name # name} \cup {[name |-> name, text |-> text]}

\* --------------------------------------------------------------- actions

\* write_score_code is entered: lines 118-128
Call(self) ==
    /\ self \in threads
    /\ frame[self].pc \in {"idle", "done"}
    /\ budget > 0
    /\ budget' = budget - 1
    /\ \E a \in ArgsOf(scope) :
         LET e == _check_for_invalid_variable_names(InputVarList(a)) IN
         Set(self, [IdleFrame EXCEPT !.args = a, !.start = Len(score_code), !.exc = e,
                                     !.pc = IF e # NoExc THEN "done" ELSE "resolve"])
    /\ UNCHANGED <<score_code, disk, remote, session, scope, threads>>

\* lines 130-150: the model id, then model_file_name and binary_string from kwargs
Resolve(self) ==
    /\ self \in threads /\ frame[self].pc = "resolve"
    /\ \E model_response \in ModelResponses :
         LET f == frame[self]
             a == f.args
             got == IF session = "v35" THEN _get_model_id(a.model, model_response)
                    ELSE [id |-> None, exc |-> NoExc]
             bs == a.kwargs.binary_string
         IN
         /\ Set(self, [f EXCEPT !.model_id = got.id, !.exc = got.exc,
                                !.warnings = IF session = "none" THEN @ + 1 ELSE @,
                                !.model_file_name = IF bs # Absent THEN None
                                                    ELSE a.model_file_name,
                                !.binary_string = IF bs # Absent THEN bs ELSE None,
                                !.pc = IF got.exc # NoExc THEN "done" ELSE "imports"])
         /\ remote' = IF session = "v35" /\ Truthy(a.model)
                      THEN Append(remote, [op |-> "get_model", what |-> a.model])
                      ELSE remote
    /\ UNCHANGED <<score_code, disk, session, scope, budget, threads>>

\* lines 152-158
WriteImports(self) ==
    /\ self \in threads /\ frame[self].pc = "imports"
    /\ LET f == frame[self]
           k == f.args.kwargs
       IN
       /\ score_code' = score_code \o
            _write_imports(f.args.pickle_type, k.mojo_model # Absent,
                           k.binary_h2o_model # Absent, f.binary_string, session)
       /\ Set(self, [f EXCEPT !.pc = "load",
                              !.stages = Ran(@, "imports", Len(score_code), Len(score_code')),
                              !.warnings = IF session = "none" THEN @ + 1 ELSE @])
    /\ UNCHANGED <<disk, remote, session, scope, budget, threads>>

\* lines 160-178: the arguments in the order the call gives them
ModelLoad(self) ==
    /\ self \in threads /\ frame[self].pc = "load"
    /\ LET f == frame[self]
           k == f.args.kwargs
           load == IF Truthy(f.model_id) /\ ~Truthy(f.binary_string)
                   THEN _viya35_model_load(f.model_id, f.args.pickle_type, f.model_file_name,
                                           k.mojo_model # Absent, k.binary_h2o_model # Absent)
                   ELSE IF ~Truthy(f.binary_string)
                   THEN _viya4_model_load(f.args.pickle_type, f.model_file_name,
                                          k.mojo_model # Absent, k.binary_h2o_model # Absent)
                   ELSE [emit |-> <<>>, ret |-> <<>>]
       IN
       /\ score_code' = score_code \o load.emit
       /\ Set(self, [f EXCEPT !.pc = "header", !.model_load = load.ret,
                              !.stages = Ran(@, "load", Len(score_code), Len(score_code'))])
    /\ UNCHANGED <<disk, remote, session, scope, budget, threads>>

\* lines 180-192
Header(self) ==
    /\ self \in threads /\ frame[self].pc = "header"
    /\ LET f == frame[self] IN
       /\ score_code' = score_code
            \o ScoreHeader(f.args.model_prefix, InputVarList(f.args), f.args.metrics)
            \o (IF Len(f.model_load) > 0 THEN LoadGuard(f.model_load) ELSE <<>>)
       /\ Set(self, [f EXCEPT !.pc = "impute",
                              !.stages = Ran(@, "header", Len(score_code), Len(score_code'))])
    /\ UNCHANGED <<disk, remote, session, scope, budget, threads>>

\* lines 194-195
Impute(self) ==
    /\ self \in threads /\ frame[self].pc = "impute"
    /\ LET f == frame[self]
           r == IF f.args.missing_values
                THEN _impute_missing_values(f.args.input_kind, f.args.input_data)
                ELSE Emit(<<>>)
       IN
       /\ score_code' = score_code \o r.text
       /\ Set(self, [f EXCEPT !.exc = r.exc,
                              !.stages = IF f.args.missing_values
                                         THEN Ran(@, "impute", Len(score_code),
                                                  Len(score_code'))
                                         ELSE @,
                              !.pc = IF r.exc # NoExc THEN "done" ELSE "predict"])
    /\ UNCHANGED <<disk, remote, session, scope, budget, threads>>

IsH2O(kwargs) == kwargs.mojo_model # Absent \/ kwargs.binary_h2o_model # Absent

\* lines 197-201 and 209-213
Predict(self) ==
    /\ self \in threads /\ frame[self].pc = "predict"
    /\ LET f == frame[self]
           k == f.args.kwargs
       IN
       /\ score_code' = score_code \o
            _predict_method(f.args.predict_method, f.args.input_data,
                            IsH2O(k) /\ Len(f.args.input_data) > 0,
                            ~IsH2O(k) /\ k.statsmodels_model # Absent)
       /\ Set(self, [f EXCEPT !.pc = "metrics",
                              !.stages = Ran(@, "predict", Len(score_code), Len(score_code'))])
    /\ UNCHANGED <<disk, remote, session, scope, budget, threads>>

Metrics_goes_on(self) ==
    /\ self \in threads /\ frame[self].pc = "metrics"
    /\ LET f == frame[self]
           a == f.args
           r == _predictions_to_metrics(a.metrics, a.has_targets, a.target_values,
                                        a.predict_threshold, IsH2O(a.kwargs))
       IN
       /\ score_code' = score_code \o r.text
       /\ Set(self, [f EXCEPT !.exc = r.exc,
                              !.mark = Len(score_code),
                              !.stages = Ran(@, "metrics", Len(score_code), Len(score_code')),
                              !.branch = Dispatch(a.has_targets, a.target_values,
                                                  a.predict_threshold),
                              !.pc = "remote"])
    /\ UNCHANGED <<disk, remote, session, scope, budget, threads>>

\* lines 202-207 and 214-218
Metrics(self) ==
    /\ self \in threads /\ frame[self].pc = "metrics"
    /\ LET f == frame[self]
           a == f.args
           r == _predictions_to_metrics(a.metrics, a.has_targets, a.target_values,
                                        a.predict_threshold, IsH2O(a.kwargs))
       IN
       /\ score_code' = score_code \o r.text
       /\ Set(self, [f EXCEPT !.exc = r.exc,
                              !.mark = Len(score_code),
                              !.stages = Ran(@, "metrics", Len(score_code), Len(score_code')),
                              !.branch = Dispatch(a.has_targets, a.target_values,
                                                  a.predict_threshold),
                              !.pc = IF r.exc # NoExc THEN "done" ELSE "remote"])
    /\ UNCHANGED <<disk, remote, session, scope, budget, threads>>

\* lines 220-259; has_score_sas: the model contents hold a file named score.sas;
\* shape: the text of that file; outputVariables: those of the registered model
Remote(self) ==
    /\ self \in threads /\ frame[self].pc = "remote"
    /\ \E has_score_sas \in BOOLEAN, shape \in ScoreSasShapes(scope),
          outputVariables \in OutputVariableLists(scope) :
         LET f == frame[self]
             a == f.args
             wrap == Truthy(f.model_id) /\ a.score_cas /\ has_score_sas
             mas == ScoreSasOf(shape)
             cas == convert_mas_to_cas(mas, outputVariables)
         IN
         /\ remote' = remote \o
              (IF Truthy(f.model_id)
               THEN upload_and_copy_score_resources(a.model_prefix \o "_score.py")
                    \o <<[op |-> "convert_python_to_ds2", what |-> f.model_id]>>
                    \o (IF a.score_cas
                        THEN <<[op |-> "get_model_contents", what |-> f.model_id]>>
                        ELSE <<>>)
                    \o (IF wrap
                        THEN <<[op |-> "get", what |-> "score.sas"]>>
                             \o upload_and_copy_score_resources(MAS_CODE_NAME)
                             \o <<[op |-> "get_model", what |-> f.model_id]>>
                             \o upload_and_copy_score_resources(CAS_CODE_NAME)
                             \o <<[op |-> "get_model", what |-> f.model_id],
                                  [op |-> "update_model", what |-> "ds2MultiType"]>>
                        ELSE <<>>)
               ELSE <<>>)
         /\ Set(self, [f EXCEPT !.pc = "deliver",
                                !.outputVariables = IF wrap THEN outputVariables ELSE @,
                                !.mas_code = IF wrap THEN <<mas>> ELSE @,
                                !.cas_code = IF wrap THEN <<cas>> ELSE @])
    /\ UNCHANGED <<score_code, disk, session, scope, budget, threads>>

\* what the stages of the call of frame f appended to the buffer
OwnText(f) ==
    Flat([i \in DOMAIN f.stages |-> SubSeq(score_code, f.stages[i].from + 1, f.stages[i].to)])

Deliver_own_text(self) ==
    /\ self \in threads /\ frame[self].pc = "deliver"
    /\ LET f == frame[self]
           a == f.args
           py == a.model_prefix \o "_score.py"
           both == Truthy(f.model_id) /\ a.score_cas
           unbound == both /\ f.mas_code = Unbound
           failed == [f EXCEPT !.pc = "done",
                               !.exc = Raise("UnboundLocalError", "mas_code")]
       IN
       IF Truthy(a.score_code_path)
       THEN /\ disk' =
                 IF ~both THEN WriteFile(disk, py, OwnText(f))
                 ELSE IF unbound
                 THEN WriteFile(WriteFile(disk, py, OwnText(f)), MAS_CODE_NAME, <<>>)
                 ELSE WriteFile(WriteFile(WriteFile(disk, py, OwnText(f)),
                                          MAS_CODE_NAME, f.mas_code),
                                CAS_CODE_NAME, f.cas_code)
            /\ Set(self, IF unbound THEN failed ELSE [f EXCEPT !.pc = "done"])
       ELSE /\ disk' = disk
            /\ Set(self,
                 IF unbound THEN failed
                 ELSE [f EXCEPT !.pc = "done", !.returned = TRUE,
                                !.output_dict =
                                   {[name |-> py, text |-> OwnText(f)]} \cup
                                   (IF both
                                    THEN {[name |-> MAS_CODE_NAME, text |-> f.mas_code],
                                          [name |-> CAS_CODE_NAME, text |-> f.cas_code]}
                                    ELSE {})])
    /\ UNCHANGED <<score_code, remote, session, scope, budget, threads>>

\* lines 261-279
Deliver(self) ==
    /\ self \in threads /\ frame[self].pc = "deliver"
    /\ LET f == frame[self]
           a == f.args
           py == a.model_prefix \o "_score.py"
           both == Truthy(f.model_id) /\ a.score_cas
           unbound == both /\ f.mas_code = Unbound
           failed == [f EXCEPT !.pc = "done",
                               !.exc = Raise("UnboundLocalError", "mas_code")]
       IN
       IF Truthy(a.score_code_path)
       THEN /\ disk' =
                 IF ~both THEN WriteFile(disk, py, score_code)
                 ELSE IF unbound
                 THEN WriteFile(WriteFile(disk, py, score_code), MAS_CODE_NAME, <<>>)
                 ELSE WriteFile(WriteFile(WriteFile(disk, py, score_code),
                                          MAS_CODE_NAME, f.mas_code),
                                CAS_CODE_NAME, f.cas_code)
            /\ Set(self, IF unbound THEN failed ELSE [f EXCEPT !.pc = "done"])
       ELSE /\ disk' = disk
            /\ Set(self,
                 IF unbound THEN failed
                 ELSE [f EXCEPT !.pc = "done", !.returned = TRUE,
                                !.output_dict =
                                   {[name |-> py, text |-> score_code]} \cup
                                   (IF both
                                    THEN {[name |-> MAS_CODE_NAME, text |-> f.mas_code],
                                          [name |-> CAS_CODE_NAME, text |-> f.cas_code]}
                                    ELSE {})])
    /\ UNCHANGED <<score_code, remote, session, scope, budget, threads>>

Step(self) ==
    \/ Call(self)
    \/ Resolve(self)
    \/ WriteImports(self)
    \/ ModelLoad(self)
    \/ Header(self)
    \/ Impute(self)
    \/ Predict(self)
    \/ Metrics(self)
    \/ Remote(self)
    \/ Deliver(self)

Callers == {1, 2}

Next == \E self \in Callers : Step(self)

\* calls one after another, from the arguments of scope "calls"
Spec == Init /\ [][Next]_vars

\* one call from the empty buffer, over the names and kinds of input_data
InitNames == InitIn("names", 1, {1})
SpecNames == InitNames /\ [][Next]_vars

\* one call from the empty buffer, over metrics, target_values and predict_threshold
InitMetrics == InitIn("metrics", 1, {1})
SpecMetrics == InitMetrics /\ [][Next]_vars

\* one call from the empty buffer, over the session, the model and the output
InitPlatform == InitIn("platform", 1, {1})
SpecPlatform == InitPlatform /\ [][Next]_vars

\* one call from the empty buffer, over what makes a call fail and what it could leave
InitErrors == InitIn("errors", 1, {1})
SpecErrors == InitErrors /\ [][Next]_vars

\* one call for a registered model, over the score.sas text and the output variables
InitConvert == InitIn("convert", 1, {1})
SpecConvert == InitConvert /\ [][Next]_vars

\* one call from the empty buffer, over the input, the imputation and the model file
InitStages == InitIn("stages", 1, {1})
SpecStages == InitStages /\ [][Next]_vars

\* one call from the empty buffer, over the boolean keywords and the predict method
InitFlags == InitIn("flags", 1, {1})
SpecFlags == InitFlags /\ [][Next]_vars

\* one call of each caller, the callers running at the same time with no lock:
\* the steps of the two calls interleave stage by stage
InitConcurrent == InitIn("concurrent", Cardinality(Callers), Callers)
SpecConcurrent == InitConcurrent /\ [][Next]_vars

\* ----------------------------------------------------------------- claims

\* the call of caller 1, and what it has appended to the buffer so far
F == frame[1]
Own == DropFirst(F.start, score_code)
\* what the metric mapping stage appended
Mapping == DropFirst(F.mark, score_code)
AfterMapping == F.branch # None
Names == InputVarList(F.args)
Targets == IF F.args.has_targets THEN F.args.target_values ELSE <<>>
PyName == F.args.model_prefix \o "_score.py"
HasFile(files, name) == \E f \in files : f.name = name
FileText(files, name) == (CHOOSE f \in files : f.name = name).text
Delivered == IF Truthy(F.args.score_code_path) THEN disk ELSE F.output_dict

\* C1: the '<prefix>_score.py' text a call delivers is the text that call
\* generated, with none of the text of an earlier call.
C1_DeliversOwnTextOnly ==
    (F.pc = "done" /\ F.exc = NoExc) => FileText(Delivered, PyName) = Own

\* the places of the names that are no identifiers, and the k-th of them
InvalidIdx == {i \in 1..Len(Names) : ~isidentifier(Names[i])}
NthInvalid(k) == CHOOSE i \in InvalidIdx : Cardinality({j \in InvalidIdx : j <= i}) = k

\* C2: a predictor list with a name that is no identifier makes the call fail
\* with a SyntaxError listing exactly those names, in input order, before
\* anything is appended; a list of identifiers raises nothing in validation.
C2_InvalidNamesRejected ==
    F.pc # "idle" =>
        IF InvalidIdx # {}
        THEN /\ F.pc = "done"
             /\ F.exc.type = "SyntaxError"
             /\ Len(F.exc.names) = Cardinality(InvalidIdx)
             /\ \A k \in 1..Len(F.exc.names) : F.exc.names[k] = Names[NthInvalid(k)]
             /\ Own = <<>> /\ disk = {} /\ remote = <<>> /\ ~F.returned
        ELSE F.exc.type # "SyntaxError"

C2_Witness ==
    /\ F.pc = "done" /\ F.exc.type = "SyntaxError"
    /\ Len(Names) = 2 /\ isidentifier(Names[1]) /\ F.exc.names = <<Names[2]>>

\* C3: a call with a threshold and no target values fails and leaves the
\* buffer as it found it.
C3_ThresholdWithoutTargetsEmitsNothing ==
    (F.pc = "done" /\ F.args.predict_threshold # None /\ Len(Targets) = 0)
        => (F.exc # NoExc /\ Own = <<>>)

\* the case the specification names for the arguments of the call
ClaimedCase ==
    IF Len(Targets) = 0
    THEN (IF F.args.predict_threshold = None THEN "passthrough"
          ELSE "threshold_without_target")
    ELSE IF Len(Targets) = 1
    THEN (IF Targets[1] = "1" THEN "binary" ELSE "single_not_one")
    ELSE "multiclass"

\* the case that fired (int() raising is the error of a single target that is not 1)
FiredCase == IF F.branch = "int_raises" THEN "single_not_one" ELSE F.branch

\* C4: the case of the metric mapping that fires is the one the arguments
\* name: passthrough, threshold without targets, binary, single target not 1,
\* multiclass.
C4_DispatchCases == AfterMapping => FiredCase = ClaimedCase

\* the expressions of the last return statement of a text
LastReturn(text) ==
    CHOOSE i \in 1..Len(text) :
        text[i] = "return " /\ \A j \in (i + 1)..Len(text) : text[j] # "return "
ReturnedExprs(text) ==
    LET p == LastReturn(text) IN
    [k \in 1..((Len(text) - p + 1) \div 2) |-> text[p + 2 * k - 1]]

RawProbability == {"prediction", "prediction[1][2]"}

\* the mapping compares the probability with a threshold, 0.5 when none was
\* given, and sets the label to 1 or 0
ComparesWithThreshold ==
    /\ \E i \in 1..(Len(Mapping) - 3) :
         /\ Mapping[i] = "if " /\ Mapping[i + 1] \in RawProbability /\ Mapping[i + 2] = " > "
         /\ Mapping[i + 3] \in {"0.5", F.args.predict_threshold}
         /\ F.args.predict_threshold = None => Mapping[i + 3] = "0.5"
    /\ Occurs(<<F.args.metrics[1], " = ", "1">>, Mapping)
    /\ Occurs(<<F.args.metrics[1], " = ", "0">>, Mapping)

BinaryCase == AfterMapping /\ Targets = <<"1">>

\* C5: with the single target value 1 the mapping compares with a threshold
\* (0.5 by default) and returns the label for one metric, the label and the
\* raw probability for two; more than two metrics raise "Too many metrics".
C5_BinaryTarget ==
    BinaryCase =>
        LET n == Len(F.args.metrics) IN
        /\ n = 1 => /\ F.exc = NoExc /\ ComparesWithThreshold
                    /\ ReturnedExprs(Mapping) = <<F.args.metrics[1]>>
        /\ n = 2 => /\ F.exc = NoExc /\ ComparesWithThreshold
                    /\ Len(ReturnedExprs(Mapping)) = 2
                    /\ ReturnedExprs(Mapping)[1] = F.args.metrics[1]
                    /\ ReturnedExprs(Mapping)[2] \in RawProbability
        /\ n > 2 => /\ F.exc = Raise("ValueError", "Too many metrics")
                    /\ F.pc = "done" /\ Mapping = <<>>

C5_Witness ==
    /\ BinaryCase /\ Len(F.args.metrics) = 2 /\ F.pc = "done" /\ F.exc = NoExc
    /\ F.args.predict_threshold = None

\* some metric is assigned target_values[index of the largest prediction]
SelectsArgMax ==
    \E i \in 1..Len(F.args.metrics) :
        Occurs(<<F.args.metrics[i], " = ", "target_values[">>, Mapping)

\* C6: with N > 1 target values and N or N + 1 metrics the mapping assigns the
\* target value of the largest prediction to a metric.
C6_MulticlassSelectsArgMax ==
    (AfterMapping /\ Len(Targets) > 1
     /\ Len(F.args.metrics) \in {Len(Targets), Len(Targets) + 1}) => SelectsArgMax

\* C7 as stated: with N > 1 target values every number of metrics other than N
\* and N + 1 makes the call fail.
C7_FailsUnlessNOrNPlus1 ==
    (F.pc = "done" /\ Len(Targets) > 1
     /\ Len(F.args.metrics) \notin {Len(Targets), Len(Targets) + 1})
        => F.exc.type = "ValueError"

\* C7: with N > 1 target values the metric mapping raises the ValueError
\* "invalid number of target values" for every number of metrics other than
\* 1, N and N + 1, appending nothing, and the call delivers nothing.
C7_FailsUnless1OrNOrNPlus1 ==
    (AfterMapping /\ Len(Targets) > 1
     /\ Len(F.args.metrics) \notin {1, Len(Targets), Len(Targets) + 1})
        => /\ F.pc = "done"
           /\ F.exc = Raise("ValueError", "An invalid number of target values")
           /\ Mapping = <<>> /\ ~F.returned /\ disk = {}

C7_Witness ==
    /\ AfterMapping /\ Len(Targets) = 2 /\ Len(F.args.metrics) = 4
    /\ F.pc = "done" /\ F.exc.type = "ValueError"

\* the text from place p on is "<def><prefix>(<name>, <name>, ...):" and a line
\* break, the names being those of input_data in their order
SignatureAt(def, p) ==
    LET n == Len(Names) IN
    /\ p + 3 + 2 * n <= Len(Own)
    /\ Own[p] = def /\ Own[p + 1] = F.args.model_prefix /\ Own[p + 2] = "("
    /\ \A i \in 1..n : Own[p + 1 + 2 * i] = Names[i]
    /\ \A i \in 1..(n - 1) : Own[p + 2 + 2 * i] = ", "
    /\ Own[p + 2 + 2 * n] = "):" /\ Own[p + 3 + 2 * n] = NL

HeaderWritten ==
    \/ F.pc \in {"impute", "predict", "metrics", "remote", "deliver"}
    \/ F.pc = "done" /\ F.exc = NoExc

\* C8 as stated: the signature is "def score_<prefix>(p1, p2, ...):".
C8_SignatureWithUnderscore ==
    HeaderWritten => \E p \in 1..Len(Own) : SignatureAt("def score_", p)

\* C8: the signature is "def score<prefix>(p1, p2, ...):", the prefix joined
\* to "score" with nothing between, the predictor names in input order.
C8_Signature ==
    HeaderWritten => \E p \in 1..Len(Own) : SignatureAt("def score", p)

C8_Witness ==
    HeaderWritten /\ Names = <<"MORTDUE", "LOAN">> /\ F.args.model_prefix = "Tree"

\* predictors [LOAN, MORTDUE], metrics [BAD], target_values [1, 0], no threshold
C9_Scenario ==
    /\ F.pc = "done" /\ F.exc = NoExc
    /\ Names = <<"LOAN", "MORTDUE">> /\ F.args.metrics = <<"BAD">>
    /\ Targets = <<"1", "0">> /\ F.args.predict_threshold = None
    /\ F.args.kwargs = NoKwargs

\* C9 as stated: the body ends with a comparison with 0.5 that sets BAD to 0
\* or 1, and with returning BAD.
C9_EndsWithThresholdComparison ==
    C9_Scenario =>
        /\ Occurs(<<"if ", "prediction", " > ", "0.5", ":">>, Mapping)
        /\ IsSuffix(<<"return ", "BAD">>, score_code)

\* C9: the body ends with "target_values = [1, 0]", the assignment to BAD of
\* the target value of the largest prediction, and "return BAD"; no comparison
\* with a threshold is emitted.
C9_EndsWithArgMax ==
    C9_Scenario =>
        /\ IsSuffix(<<Sp(4), "target_values = ", "[", "1", ", ", "0", "]", NL,
                      Sp(4), "BAD", " = ", "target_values[", "prediction",
                      ".index(max(", "prediction", "))]", NL,
                      Sp(4), "return ", "BAD">>, score_code)
        /\ \A i \in 1..Len(Mapping) : Mapping[i] \notin {"if ", " > "}

C9_Witness == C9_Scenario

\* a legacy-platform model id was resolved and score_cas is true
WrappersDue == Truthy(F.model_id) /\ F.args.score_cas

\* C10: with a score_code_path the files are written and nothing is returned,
\* without one nothing is written and a mapping is returned; the output holds
\* '<prefix>_score.py' always and the two wrappers exactly when a model id was
\* resolved and score_cas is true.
C10_OutputDelivery ==
    (F.pc = "done" /\ F.exc.type \in {None, "UnboundLocalError"}) =>
        /\ Truthy(F.args.score_code_path) => ~F.returned
        /\ ~Truthy(F.args.score_code_path) => (F.returned /\ disk = {})
        /\ HasFile(Delivered, PyName)
        /\ HasFile(Delivered, MAS_CODE_NAME) <=> WrappersDue
        /\ HasFile(Delivered, CAS_CODE_NAME) <=> WrappersDue

\* the places of the log where the repository was asked for op, and where a
\* file of the given name was uploaded
Asked(op) == {i \in DOMAIN remote : remote[i].op = op}
Uploaded(name) ==
    {i \in DOMAIN remote : remote[i] = [op |-> "add_model_content", what |-> name]}
\* every request of A comes before every request of B
Precede(A, B) == \A i \in A, j \in B : i < j
\* the requests that change the model in the repository
Changes ==
    Asked("add_model_content") \cup Asked("copy_python_resources")
    \cup Asked("convert_python_to_ds2") \cup Asked("update_model")

\* C11: with a resolved model id and score_cas true the requests to the
\* repository come in the order: upload of the Python file, conversion to
\* DS2, listing of the contents, fetch of score.sas, upload of the MAS
\* wrapper, the reading of the model by the MAS to CAS conversion, upload of
\* the CAS wrapper, update of scoreCodeType to ds2MultiType.  The update has
\* both wrapper uploads before it and is never made when score_cas is false.
C11_RemoteOrder ==
    LET update == {i \in Asked("update_model") : remote[i].what = "ds2MultiType"} IN
    /\ (F.pc \in {"deliver", "done"} /\ WrappersDue) =>
         /\ Precede(Uploaded(PyName), Asked("convert_python_to_ds2"))
         /\ Precede(Asked("convert_python_to_ds2"), Asked("get_model_contents"))
         /\ Precede(Asked("get_model_contents"), Asked("get"))
         /\ Precede(Asked("get"), Uploaded(MAS_CODE_NAME))
         /\ Precede(Uploaded(MAS_CODE_NAME), Uploaded(CAS_CODE_NAME))
         /\ Precede(Uploaded(CAS_CODE_NAME), update)
         /\ \A m \in Uploaded(MAS_CODE_NAME), c \in Uploaded(CAS_CODE_NAME) :
              \E g \in Asked("get_model") : m < g /\ g < c
         /\ update # {} =>
              /\ Uploaded(PyName) # {} /\ Asked("convert_python_to_ds2") # {}
              /\ Asked("get_model_contents") # {} /\ Asked("get") # {}
    /\ \A u \in update :
         /\ \E m \in Uploaded(MAS_CODE_NAME) : m < u
         /\ \E c \in Uploaded(CAS_CODE_NAME) : c < u
    /\ ~F.args.score_cas => update = {}

C11_Witness ==
    /\ F.pc = "done" /\ WrappersDue
    /\ \E u \in Asked("update_model") : remote[u].what = "ds2MultiType"

\* C12: without a session the call does not fail, it warns, it asks the
\* repository for nothing, the code it generates is the code of the current
\* platform (its imports and its model load), and '<prefix>_score.py' is all
\* it produces.
C12_NoSessionCurrentPlatformCode ==
    (session = "none" /\ F.pc = "done") =>
        /\ F.exc = NoExc
        /\ F.warnings > 0
        /\ remote = <<>>
        /\ F.model_id = None
        /\ IsPrefix(_write_imports(F.args.pickle_type,
                                   F.args.kwargs.mojo_model # Absent,
                                   F.args.kwargs.binary_h2o_model # Absent,
                                   F.binary_string, "v4"),
                    Own)
        /\ Delivered = {[name |-> PyName, text |-> score_code]}

\* C13: on the legacy platform the call fails with the missing-model error
\* exactly when no model is given or the lookup finds none, and then nothing
\* was appended to the buffer and nothing uploaded; on any other platform no
\* model is looked up and model_id is None.
C13_MissingModel ==
    /\ (session = "v35" /\ F.pc \notin {"idle", "resolve"}) =>
         /\ (~Truthy(F.args.model) \/ F.model_id = None) <=> F.exc.type = "ValueError"
         /\ ~Truthy(F.args.model) => Asked("get_model") = {}
         /\ F.exc.type = "ValueError" =>
              F.pc = "done" /\ Own = <<>> /\ Changes = {} /\ disk = {} /\ ~F.returned
    /\ session # "v35" => (F.model_id = None /\ Asked("get_model") = {})

C13_Witness ==
    /\ session = "v35" /\ Truthy(F.args.model) /\ F.model_id = None
    /\ F.exc.type = "ValueError" /\ Asked("get_model") # {}

\* C14: a call that raised the invalid-input or the missing-model error is
\* over and has written no file, returned no mapping, and made no upload, no
\* conversion and no update in the repository.
C14_FatalAborts ==
    F.exc.type \in {"SyntaxError", "ValueError"} =>
        /\ F.pc = "done"
        /\ disk = {}
        /\ ~F.returned /\ F.output_dict = {}
        /\ Changes = {}

C14_Witness ==
    /\ F.exc.type = "ValueError" /\ Truthy(F.model_id)
    /\ Truthy(F.args.score_code_path) /\ F.args.score_cas
    /\ Len(Own) > 0

\* the score.sas text the call fetched and the CAS text it made of it
Converted == F.mas_code # Unbound /\ F.cas_code # Unbound
Mas == F.mas_code[1]
Cas == F.cas_code[1]
StartsWith(p, t) == Len(p) <= Len(t) /\ SubSeq(t, 1, Len(p)) = p
EndsWith(e, t) == Len(e) <= Len(t) /\ SubSeq(t, Len(t) - Len(e) + 1, Len(t)) = e
Lines(t) == split(t, "\n")
IntDeclaration == "dcl int resultCode revision;"
\* the declaration the claim gives an output variable
DclOf(v) ==
    "dcl " \o (IF v.type = "string" THEN "varchar(100)" ELSE "double") \o " " \o v.name \o ";"
OutputDcls == [i \in 1..Len(F.outputVariables) |-> DclOf(F.outputVariables[i])]

IsOutputDcl(line) == \E i \in DOMAIN OutputDcls : line = OutputDcls[i]

\* C15: of a MAS text that holds the integer declaration the CAS text holds
\* one 'dcl <type> <name>;' line for each output variable of the model, in
\* the order of the list, varchar(100) for type 'string' and double
\* otherwise, and the integer declaration has become the double declaration.
C15_OneDclLinePerOutputVariable ==
    (Converted /\ In(IntDeclaration, Mas)) =>
        /\ SelectSeq(Lines(Cas), IsOutputDcl) = OutputDcls
        /\ In("dcl double resultCode revision;\n", Cas)

C15_Witness ==
    /\ Converted /\ In(IntDeclaration, Mas)
    /\ Len(F.outputVariables) = 2
    /\ F.outputVariables[1].type # "string" /\ F.outputVariables[2].type = "string"
    /\ In("dcl double EM_EVENTPROBABILITY;\ndcl varchar(100) EM_CLASSIFICATION;\n", Cas)

\* the run method the claim puts in the place of the end-of-package marker
Epilogue(names) ==
    "method run();\n    set SASEP.IN;\n    score(" \o join(", ", names)
    \o ");\nend;\nenddata;"
ParamNames(params) == [i \in 1..Len(params) |-> params[i].name]

\* C16: where the MAS text has a score method and ends with the
\* end-of-package marker, the CAS text ends with the run method, and the
\* score(...) call of that method lists the bare names of the parameters of
\* the score method, in their order.
C16_EpilogueCallsScoreWithBareNames ==
    \A shape \in ScoreSasShapes("convert") :
        (Converted /\ Mas = ScoreSasOf(shape) /\ shape.has_method /\ shape.endpackage) =>
            /\ EndsWith(Epilogue(ParamNames(shape.params)) \o "\n", Cas)
            /\ ~EndsWith("endpackage;\n", Cas)

C16_Witness ==
    /\ Converted /\ EndsWith("endpackage;\n", Mas)
    /\ In("method score(double LOAN, double MORTDUE, in_out double resultCode, ", Mas)
    /\ In("in_out varchar(100) EM_CLASSIFICATION);", Mas)
    /\ In("    score(LOAN, MORTDUE, resultCode, EM_CLASSIFICATION);\nend;\nenddata;", Cas)

\* the CAS text of a MAS text of the given shape, up to the run method: every
\* line that is none of the three patterns as it was, the package header as
\* 'data sasep.out;', the integer declaration as the double declaration and
\* the output declarations
UpToRunMethod(shape) ==
    (IF shape.header THEN "data sasep.out;\n" ELSE "")
    \o "dcl package pymas pm;\n"
    \o (IF shape.dcl
        THEN "dcl double resultCode revision;\n" \o join("", [i \in DOMAIN OutputDcls |->
                                                              OutputDcls[i] \o "\n"])
             \o "\n"
        ELSE "")
    \o (IF shape.has_method
        THEN "method score("
             \o join(", ", [i \in 1..Len(shape.params) |-> ParamText(shape.params[i])])
             \o ");\n    resultCode = revision = 0;\nend;\n"
        ELSE "")

\* C17: the conversion replaces the three patterns where they stand, leaves
\* every other character as it was and where it was, leaves the text it puts
\* in alone (an output declaration that ends in 'endpackage;' stays), and
\* returns a text with none of the patterns as it was, with no error.
C17_SinglePassReplacement ==
    \A shape \in ScoreSasShapes("convert") :
        (Converted /\ Mas = ScoreSasOf(shape)) =>
            /\ F.exc = NoExc
            /\ StartsWith(UpToRunMethod(shape), Cas)
            /\ ~shape.endpackage => Cas = UpToRunMethod(shape)
            /\ shape.endpackage =>
                 /\ StartsWith(UpToRunMethod(shape) \o "method run();\n    set SASEP.IN;\n    score(",
                               Cas)
                 /\ EndsWith(");\nend;\nenddata;\n", Cas)
            /\ (shape.endpackage /\ shape.has_method) =>
                 Cas = UpToRunMethod(shape) \o Epilogue(ParamNames(shape.params)) \o "\n"
            /\ (~shape.header /\ ~shape.dcl /\ ~shape.endpackage) => Cas = Mas

C17_Witness ==
    /\ Converted
    /\ In("package pythonScore / overwrite=yes;", Mas)
    /\ In(IntDeclaration, Mas) /\ EndsWith("endpackage;\n", Mas)
    /\ \E i \in DOMAIN F.outputVariables : F.outputVariables[i].name = "endpackage"
    /\ In("dcl double endpackage;\n", Cas)

\* the stages the call has run, and what each appended to the buffer
StageRan(name) == \E i \in DOMAIN F.stages : F.stages[i].stage = name
StageOf(name) == F.stages[CHOOSE i \in DOMAIN F.stages : F.stages[i].stage = name]
StageText(name) == SubSeq(score_code, StageOf(name).from + 1, StageOf(name).to)
Has(piece, text) == \E i \in DOMAIN text : In(piece, text[i])
StageRank(name) ==
    CASE name = "imports" -> 1 [] name = "load" -> 2 [] name = "header" -> 3
      [] name = "impute" -> 4 [] name = "predict" -> 5 [] OTHER -> 6
Generated == AfterMapping /\ F.exc = NoExc

\* the stages ran in the order imports, model load, header and guard,
\* imputation, prediction, metric mapping, each appending where the one
\* before stopped, and each appended the text of its kind
StagesInOrder ==
    /\ \A i \in DOMAIN F.stages : \A j \in DOMAIN F.stages :
         i < j => StageRank(F.stages[i].stage) < StageRank(F.stages[j].stage)
    /\ \A i \in DOMAIN F.stages :
         /\ F.stages[i].from <= F.stages[i].to
         /\ F.stages[i].from = (IF i = 1 THEN F.start ELSE F.stages[i - 1].to)
    /\ F.stages # <<>> => F.stages[Len(F.stages)].to = Len(score_code)
    /\ StageRan("imports") => StageText("imports")[1] = "import math"
    /\ StageRan("load") => ~Has("import ", StageText("load"))
    /\ StageRan("header") => StageText("header")[1] = "def score"
    /\ StageRan("predict") =>
         /\ Has("prediction = model.", StageText("predict"))
         /\ ~Has("def score", StageText("predict"))
    /\ Generated =>
         /\ Has("return ", StageText("metrics"))
         /\ \A n \in {"imports", "load", "header", "predict", "metrics"} : StageRan(n)

\* the buffer holds text of the imputation stage
ImputationText ==
    /\ StageRan("impute") /\ StageText("impute") # <<>>
    /\ Has("if math.isnan(", Own) \/ Has(".strip()", Own)

Opens(text, name) ==
    \E i \in DOMAIN text : i < Len(text) /\ text[i] = name /\ StartsWith("\"", text[i + 1])
Legacy(text) == Has("/models/resources/viya/", text)
Current(text) == Has("settings.pickle_path", text)
Pickled(text) == Has(".load(pickle_model)", text)
Mojo(text) == Has("h2o.import_mojo(", text)
BinaryH2O(text) == Has("h2o.load(", text)

\* C19: the load stage appends one loading block: the legacy one when a model
\* id was resolved and the current one otherwise, for a MOJO model, a binary
\* H2O model or a pickled model as the keywords say; the block opens the file
\* named model_file_name, and for a pickled model it loads with the library
\* pickle_type.  With a binary_string there is no loading block and no guard.
C19_LoadBlockOpensModelFile ==
    StageRan("load") =>
        LET text == StageText("load")
            a == F.args
            mojo == a.kwargs.mojo_model # Absent
            h2o == a.kwargs.binary_h2o_model # Absent
        IN
        IF a.kwargs.binary_string # Absent
        THEN /\ text = <<>>
             /\ StageRan("header") => ~Has("global model", StageText("header"))
        ELSE /\ Legacy(text) <=> Truthy(F.model_id)
             /\ Current(text) <=> ~Truthy(F.model_id)
             /\ Mojo(text) <=> mojo
             /\ BinaryH2O(text) <=> (h2o /\ ~mojo)
             /\ Pickled(text) <=> (~h2o /\ ~mojo)
             /\ Opens(text, a.model_file_name)
             /\ Pickled(text) => Occurs(<<"model = ", a.pickle_type, ".load(pickle_model)">>, text)
             /\ StageRan("header") => Has("global model", StageText("header"))

\* the blocks the claim gives a numeric and a string predictor
NumericBlock(name, value) ==
    <<Sp(4), "try:", NL, Sp(8), "if math.isnan(", name, "):", NL,
      Sp(12), name, " = ", value, NL,
      Sp(4), "except TypeError:", NL, Sp(8), name, " = ", value, NL>>
StringBlock(name) ==
    <<Sp(4), "try:", NL, Sp(8), name, " = ", name, ".strip()", NL,
      Sp(4), "except AttributeError:", NL, Sp(8), name, " = \"\"", NL>>
DeclaredString(col) == col.type \in {"object", "string"}
BlockOf(col) ==
    IF DeclaredString(col) THEN StringBlock(col.name)
    ELSE NumericBlock(col.name, IF col.binary THEN col.mode ELSE col.mean)

\* C20: with missing_values the imputation stage does not fail and appends
\* one try/except block for each predictor, in the order of input_data: for
\* a numeric one the block that sets the mean (the mode for a 0/1 column) on
\* TypeError, for a string one the block that strips or sets "" on
\* AttributeError; for a DataFrame and for a list of records alike.
C20_OneBlockPerPredictor ==
    (F.args.missing_values /\ StageRan("impute")) =>
        /\ F.exc.type # "TypeError"
        /\ StageText("impute") =
             Flat([i \in DOMAIN F.args.input_data |-> BlockOf(F.args.input_data[i])]) \o <<NL>>

\* C23: score code that reads settings.pickle_path (a loading block of the
\* current platform was appended) has "import settings" among its imports,
\* whatever the session is, and also when there is none.
C23_SettingsImported ==
    (StageRan("load") /\ Has("settings.pickle_path", Own)) =>
        Occurs(<<"import settings", NL>>, StageText("imports"))

\* the places of the mapping text where a return statement starts, and the
\* places before p where the name x is assigned
Returns(text) == {i \in DOMAIN text : text[i] = "return "}
Assigns(text, x, p) == {i \in 1..(p - 2) : text[i] = x /\ text[i + 1] = " = "}
IsMetric(x) == \E j \in DOMAIN F.args.metrics : F.args.metrics[j] = x

\* C24: when the metric mapping completes without error, each metric named
\* in the return statement is assigned by a statement before it.
C24_ReturnedMetricsAssigned ==
    Generated =>
        LET exprs == ReturnedExprs(Mapping) IN
        \A k \in DOMAIN exprs :
            IsMetric(exprs[k]) => Assigns(Mapping, exprs[k], LastReturn(Mapping)) # {}

\* the model contents were listed and no file named score.sas was among them
NoScoreSas ==
    /\ WrappersDue /\ F.pc = "done"
    /\ Asked("get_model_contents") # {} /\ Asked("get") = {}

\* C25: with a model id, score_cas and no score.sas among the model
\* contents, the call completes, delivers '<prefix>_score.py' and leaves no
\* wrapper file without its text on the disk.
C25_CompletesWithoutScoreSas ==
    NoScoreSas =>
        /\ F.exc = NoExc
        /\ HasFile(Delivered, PyName)
        /\ \A f \in disk : f.name \in {MAS_CODE_NAME, CAS_CODE_NAME} => f.text # <<>>

\* C27: a predict_threshold that was given, 0 too, is the one used: with
\* the single target value 1 the comparison is with that value, with no
\* target values the call fails with the invalid-input error and appends no
\* mapping code.
C27_GivenThresholdUsed ==
    (AfterMapping /\ F.args.predict_threshold # None) =>
        /\ (Targets = <<"1">> /\ F.exc = NoExc) =>
               Occurs(<<" > ", F.args.predict_threshold, ":">>, Mapping)
        /\ Targets = <<>> => (F.exc.type = "ValueError" /\ Mapping = <<>>)

\* C29: the return statement of every case of the metric mapping starts a
\* line and is indented by four spaces.
C29_ReturnIndented ==
    Generated =>
        /\ Returns(Mapping) # {}
        /\ \A i \in Returns(Mapping) :
             i > 2 /\ Mapping[i - 1] = Sp(4) /\ Mapping[i - 2] = NL

\* C30: the try/except NameError block the header stage appends ends with a
\* line break, for each of the loading blocks, so that the text of the next
\* stage starts a line.
C30_GuardEndsWithLineBreak ==
    (StageRan("header") /\ Has("except NameError:", StageText("header"))) =>
        StageText("header")[Len(StageText("header"))] = NL

\* what the prediction stage appended, and the features of the three shapes
Prediction == StageText("predict")
TypedFrame(text) == Has("h2o.H2OFrame(", text) /\ Has("column_types", text)
ConstantTerm(text) ==
    /\ \E i \in DOMAIN text : In("pd.DataFrame([[", text[i]) /\ text[i + 1] = "1.0"
    /\ \E i \in DOMAIN text : In("columns=[", text[i]) /\ text[i + 1] = "\"const\""
Record(text, names) ==
    \E i \in DOMAIN text :
        /\ In("pd.DataFrame([[", text[i])
        /\ \E j \in {i, i + 2} :
             SubSeq(text, j + 1, j + 2 * Len(names)) = Join(", ", names) \o <<"]],">>
PredictCall(text, method) ==
    \E i \in DOMAIN text : SubSeq(text, i, i + 2) = <<"prediction = model.", method, "(">>

\* C21: the prediction stage appends the H2O shape when the model is a MOJO
\* or a binary H2O model, the statsmodels shape with the constant term when
\* statsmodels_model is asked for, the generic shape otherwise; each shape
\* lists the predictors in input order and stores model.<predict_method>(...)
\* in prediction.
C21_PredictionShape ==
    StageRan("predict") =>
        LET k == F.args.kwargs
            h2o == k.mojo_model = "True" \/ k.binary_h2o_model = "True"
            stats == ~h2o /\ k.statsmodels_model = "True"
        IN
        /\ TypedFrame(Prediction) <=> h2o
        /\ ConstantTerm(Prediction) <=> stats
        /\ Record(Prediction, Names)
        /\ PredictCall(Prediction, F.args.predict_method)

\* the model load of a call with arguments a (lines 143-178)
LoadOf(a, model_id) ==
    LET k == a.kwargs
        binary_string == IF k.binary_string # Absent THEN k.binary_string ELSE None
        model_file_name == IF k.binary_string # Absent THEN None ELSE a.model_file_name
    IN
    IF Truthy(model_id) /\ ~Truthy(binary_string)
    THEN _viya35_model_load(model_id, a.pickle_type, model_file_name,
                            k.mojo_model # Absent, k.binary_h2o_model # Absent)
    ELSE IF ~Truthy(binary_string)
    THEN _viya4_model_load(a.pickle_type, model_file_name,
                           k.mojo_model # Absent, k.binary_h2o_model # Absent)
    ELSE [emit |-> <<>>, ret |-> <<>>]

\* the text a call with arguments a appends when it runs alone and does not
\* fail (lines 152-218)
TextOf(a, sess, model_id) ==
    LET k == a.kwargs
        load == LoadOf(a, model_id)
    IN
    _write_imports(a.pickle_type, k.mojo_model # Absent, k.binary_h2o_model # Absent,
                   IF k.binary_string # Absent THEN k.binary_string ELSE None, sess)
    \o load.emit
    \o ScoreHeader(a.model_prefix, InputVarList(a), a.metrics)
    \o (IF Len(load.ret) > 0 THEN LoadGuard(load.ret) ELSE <<>>)
    \o (IF a.missing_values THEN _impute_missing_values(a.input_kind, a.input_data).text
        ELSE <<>>)
    \o _predict_method(a.predict_method, a.input_data,
                       IsH2O(k) /\ Len(a.input_data) > 0,
                       ~IsH2O(k) /\ k.statsmodels_model # Absent)
    \o _predictions_to_metrics(a.metrics, a.has_targets, a.target_values,
                               a.predict_threshold, IsH2O(k)).text

FlagNames == {"mojo_model", "binary_h2o_model", "statsmodels_model"}
PassedFalse(kwargs) == {f \in FlagNames : kwargs[f] = "False"}
WithoutFalse(kwargs) ==
    [f \in DOMAIN kwargs |-> IF f \in PassedFalse(kwargs) THEN Absent ELSE kwargs[f]]

\* C26: a call with mojo_model, binary_h2o_model or statsmodels_model passed
\* as False generates the text the call generates without that keyword.
C26_FalseFlagAsAbsent ==
    (Generated /\ PassedFalse(F.args.kwargs) # {}) =>
        Own = TextOf([F.args EXCEPT !.kwargs = WithoutFalse(@)], session, F.model_id)

\* the variables of the emitted prediction code, and where one is assigned
PredictionVariables == {"input_array", "inputArray", "h2o_array", "column_types"}
AssignedAt(text, i) ==
    /\ text[i] \in PredictionVariables /\ i > 1 /\ text[i - 1] = Sp(4)
    /\ i < Len(text) /\ StartsWith(" = ", text[i + 1])
ReadAt(text, i) == text[i] \in PredictionVariables /\ ~AssignedAt(text, i)

\* C28: the variable the input record is assigned to is the variable the
\* predict call, or the frame construction before it, reads; and each
\* variable the prediction code reads is assigned before.
C28_RecordVariableRead ==
    StageRan("predict") =>
        /\ AssignedAt(Prediction, 2)
        /\ \E i \in DOMAIN Prediction : ReadAt(Prediction, i) /\ Prediction[i] = Prediction[2]
        /\ \A i \in DOMAIN Prediction :
             ReadAt(Prediction, i) =>
                 \E j \in 1..(i - 1) : AssignedAt(Prediction, j) /\ Prediction[j] = Prediction[i]

\* the '<prefix>_score.py' text caller c was returned
PyText(c) == FileText(frame[c].output_dict, frame[c].args.model_prefix \o "_score.py")
\* a stage of caller o appended text between two stages of caller c
Between(c, o) ==
    \E i \in 1..(Len(frame[c].stages) - 1), j \in DOMAIN frame[o].stages :
        LET s == frame[o].stages[j] IN
        /\ s.to > s.from
        /\ frame[c].stages[i].to <= s.from /\ s.to <= frame[c].stages[i + 1].from
Interleaved(c) == frame[c].returned /\ \E o \in threads \ {c} : Between(c, o)
\* the text caller c was returned is what the stages of c appended, one
\* after another from the empty buffer
RanAlone(c) ==
    LET st == frame[c].stages IN
    /\ st # <<>> /\ st[1].from = 0 /\ st[Len(st)].to = Len(PyText(c))
    /\ \A i \in 1..(Len(st) - 1) : st[i + 1].from = st[i].to

\* C22: the buffer is shared by calls that run at the same time: a call is
\* returned the text it generates alone exactly when no other call appended
\* to the buffer before it was returned, and a call between whose stages
\* another call appended is returned a text with the fragments of both.
C22_InterleavedCallsMixText ==
    \A c \in threads :
        frame[c].returned =>
            /\ PyText(c) = TextOf(frame[c].args, session, frame[c].model_id) <=> RanAlone(c)
            /\ Interleaved(c) => ~RanAlone(c)

C22_Witness ==
    \E c \in threads :
        /\ Interleaved(c) /\ frame[c].start = 0
        /\ PyText(c) # TextOf(frame[c].args, session, frame[c].model_id)

====
